---- MODULE Spec2Model ----
(***************************************************************************)
(* State-machine model of the sidebar tree / document loader of Outline:   *)
(*   - DataLoader (scenes/Document/components/DataLoader.js, here          *)
(*     src/unnamed/part_000): resolves the route's document slug into a    *)
(*     document, its shared tree and revision, and keeps the address       *)
(*     canonical;                                                          *)
(*   - CollectionLink (src/app/components/Sidebar/components/              *)
(*     CollectionLink.js): the drop zones of one sidebar collection.       *)
(* Spec and SpecCache are the loader, SpecTree and SpecCols the sidebar,   *)
(* SpecSearch the loader's link search (onSearchLink).                     *)
(***************************************************************************)
EXTENDS Integers, Sequences, FiniteSets, TLC

VARIABLES
    \* ---- DataLoader ----
    phase,          \* "new" (constructed), "mounted", "unmounted"
    props,          \* this.props.match / this.props.location as the loader sees them
    address,        \* the navigation address held by the router history
    document,       \* this.document (a document id or None)
    sharedTree,     \* this.sharedTree (NoTree or <<doc, version>>)
    revision,       \* this.revision (a revision id or None)
    error,          \* this.error (None or an error class)
    sharedTreeCache,\* module-level cache: doc id -> tree
    activeDocument, \* ui.activeDocument, written by ui.setActiveDocument
    policies,       \* policies store: doc id -> policy record
    loads,          \* loadDocument invocations awaiting a fetch
    issued,         \* number of loadDocument invocations so far
    latest,         \* history: the most recently issued invocation and its outcome
    revFetches,     \* loadRevision calls started by componentDidUpdate, in flight
    shareFetches,   \* shares.fetch calls in flight (doc ids)
    user,           \* auth.user && auth.user.id
    team,           \* auth.team
    navs,           \* number of navigations the router has delivered
    replaces,       \* history: per requested slug, history.replace calls issued for it
    lastEvent       \* history: what the last handler did

loaderVars == <<phase, props, address, document, sharedTree, revision, error,
                sharedTreeCache, activeDocument, policies, loads, issued, latest,
                revFetches, shareFetches, user, team, navs, replaces,
                lastEvent>>

VARIABLES
    \* ---- Sidebar: collections and documents stores, CollectionLink state ----
    colIndex,       \* collection.index: the collection's order key, <<num, den>>
    colPermission,  \* collection.permission (Null, "read" or "read_write")
    docCollection,  \* document node -> id of its collection
    docParent,      \* document node -> parent document id or None
    colDocuments,   \* collection.documents: its top-level nodes, in order
    activeCollectionId, \* ui.activeCollectionId
    search,         \* useLocation().search
    expanded,       \* per CollectionLink: the `expanded` state
    permissionOpen, \* per CollectionLink: the `permissionOpen` state
    itemRef,        \* per CollectionLink: itemRef.current
    dragging,       \* id of the collection being dragged, or None
    colMoves,       \* number of collections.move calls so far
    treeEvent       \* history: what the last sidebar handler did

treeVars == <<colIndex, colPermission, docCollection, docParent, colDocuments,
              activeCollectionId, search, expanded, permissionOpen, itemRef,
              dragging, colMoves, treeEvent>>

VARIABLES
    \* ---- DataLoader.onSearchLink: one call of the helper ----
    linkTerm,       \* the term the helper was called with
    linkStage,      \* "idle", "lookup" (documents.fetch pending), "titles"
                    \* (documents.searchTitles pending), "done", "failed"
    linkResults,    \* history: the list documents.searchTitles returned
    linkOutput,     \* the list the helper returned
    linkError,      \* the error the helper's promise rejected with, or None
    titleSearches,  \* documents.searchTitles calls made by this call
    linkEvent       \* history: what the last step of the helper did

searchVars == <<linkTerm, linkStage, linkResults, linkOutput, linkError,
                titleSearches, linkEvent>>

vars == <<loaderVars, treeVars, searchVars>>

-----------------------------------------------------------------------------
(* Bounds and input domains *)

MaxRequests == 3       \* loadDocument invocations and navigations of one
                       \* loader instance, counted together

None == "none"
Docs == {"d1", "d2"}
Slugs == {"a", "a-old", "b"}
RevIds == {"r1"}
ShareIds == {"s1"}
Errors == {"Offline", "NotFound"}
NoTree == <<>>
TreeVers == {1}
Trees == {<<d, v>> : d \in Docs, v \in TreeVers}

\* documents.fetch(slug): the document a slug resolves to on the server.
DocOf(slug) == IF slug = "b" THEN "d2" ELSE "d1"
\* document.url: the slug of the document's canonical address.
UrlSlugOf(d) == IF d = "d1" THEN "a" ELSE "b"
\* document.isArchived
IsArchived(d) == d = "d2"

\* A policy as held by the policies store; abilities() of an absent policy is {}.
NoPolicy == [present |-> FALSE, read |-> FALSE, update |-> FALSE]
Policies == {NoPolicy} \cup
            {[present |-> TRUE, read |-> TRUE, update |-> u] : u \in BOOLEAN}

\* Routes: /doc/:slug, /doc/:slug/edit, /doc/:slug/move,
\* /doc/:slug/history/:revisionId, /share/:shareId/doc/:slug
\* The revision, move and share routes are entered under the old slug, where
\* the canonical address differs.
Addresses ==
    {[slug |-> s, mode |-> m, revisionId |-> None, shareId |-> None] :
         s \in Slugs, m \in {"view", "edit"}}
    \cup {[slug |-> "a-old", mode |-> "view", revisionId |-> r, shareId |-> None] :
         r \in {"latest"} \cup RevIds}
    \cup {[slug |-> "a-old", mode |-> "move", revisionId |-> None, shareId |-> None]}
    \cup {[slug |-> "a-old", mode |-> "view", revisionId |-> None, shareId |-> sh] :
         sh \in ShareIds}

NoEvent == [kind |-> "init", slug |-> None, revisionId |-> None, shareId |-> None,
            wasMove |-> FALSE, wasEdit |-> FALSE, nav |-> None,
            shareIssued |-> FALSE, resolved |-> FALSE, reloads |-> 0]

-----------------------------------------------------------------------------
(* DataLoader: pure helpers *)

\* get isEditing()
isEditing(p) == p.mode = "edit"

\* location.pathname.match(/move$/)
isMove(p) == p.mode = "move"

\* policies.abilities(id)
abilities(pols, d) == pols[d]

\* mutant: the reload guard without its `!this.error` test
NeedsReload_IgnoresError(doc, pols, err, usr) ==
    /\ doc # None
    /\ ~pols[doc].present
    /\ usr

\* mutant: the reload guard without its `!policy` test
NeedsReload_IgnoresPolicy(doc, pols, err, usr) ==
    /\ doc # None
    /\ err = None
    /\ usr

\* the guard of componentDidUpdate's reload
NeedsReload(doc, pols, err, usr) ==
    /\ doc # None
    /\ ~pols[doc].present
    /\ err = None
    /\ usr

\* the guard of componentDidUpdate's revision load
NeedsRevision(prevRevisionId, revisionId) ==
    /\ prevRevisionId # revisionId
    /\ revisionId # None
    /\ revisionId # "latest"

\* loadDocument: `revisionId && revisionId !== "latest"`
IsSpecificRevision(revisionId) == revisionId # None /\ revisionId # "latest"

\* mutant: the downgrade tests can.read in place of can.update
EditDenied_TestsRead(can, editing) == ~can.read /\ editing

\* loadDocument: `!can.update && this.isEditing`
EditDenied(can, editing) == ~can.update /\ editing

\* mutant: canRedirect without its `!shareId` test
canRedirect_IgnoresShare(revisionId, moving, shareId) ==
    revisionId = None /\ ~moving

\* loadDocument: `!revisionId && !isMove && !shareId`
canRedirect(revisionId, moving, shareId) ==
    revisionId = None /\ ~moving /\ shareId = None

\* updateDocumentUrl(match.url, document): the address with its /doc/<slug> part
\* replaced by the document's url
updateDocumentUrl(p, d) == [p EXCEPT !.slug = UrlSlugOf(d)]

\* document.url as an address (the canonical read address)
DocumentUrl(d) ==
    [slug |-> UrlSlugOf(d), mode |-> "view", revisionId |-> None, shareId |-> None]

\* loadDocument: `this.props.location.pathname !== canonicalUrl`
ShouldReplace(p, canonicalUrl) == p # canonicalUrl

\* render(): which view the presentation gets
RenderView(err, doc, rev, pols, p, tm, tree) ==
    IF err # None
    THEN [view |-> IF err = "Offline" THEN "ErrorOffline" ELSE "Error404"]
    ELSE IF doc = None \/ ~tm
    THEN [view |-> "Loading"]
    ELSE [view |-> "Document",
          document |-> doc,
          revision |-> rev,
          abilities |-> abilities(pols, doc),
          isEditing |-> isEditing(p),
          readOnly |-> (~isEditing(p) \/ ~abilities(pols, doc).update
                        \/ IsArchived(doc)),
          sharedTree |-> tree]

View == RenderView(error, document, revision, policies, props, team, sharedTree)

\* What render() reads from observables: a write that changes it re-renders the
\* mounted component, and componentDidUpdate runs after the re-render.
Observed(err, doc, rev, pols) ==
    IF err # None THEN <<err>>
    ELSE IF doc = None \/ ~team THEN <<err, doc, rev>>
    ELSE <<err, doc, rev, pols[doc]>>

\* mutant: the cache keeps the first path stored for a document
CacheWrite_KeepsFirst(cache, d, tree) ==
    IF cache[d] = NoTree THEN [cache EXCEPT ![d] = tree] ELSE cache

\* line 176: `sharedTreeCache[this.document.id] = response.sharedTree`
CacheWrite(cache, d, tree) == [cache EXCEPT ![d] = tree]

\* a loadDocument invocation, the n-th, with the params it captured (line 162)
NewLoad(n, p) == [n |-> n, slug |-> p.slug, shareId |-> p.shareId,
                  revisionId |-> p.revisionId, st |-> "fetch", rid |-> None]

\* the invocations componentDidUpdate starts, one per re-render: ps is the
\* sequence of props of the re-renders that call loadDocument
Issue(ps) == {NewLoad(issued + k, ps[k]) : k \in 1..Len(ps)}

LatestAfter(ps, cur) ==
    IF ps = <<>> THEN cur
    ELSE [slug |-> ps[Len(ps)].slug, st |-> "fetch"]

\* the outcome of load l recorded when l is the most recent invocation
Outcome(l, st) == IF l.n = issued THEN [latest EXCEPT !.st = st] ELSE latest

-----------------------------------------------------------------------------
(* DataLoader: state after construction *)

InitLoader ==
    /\ phase = "new"
    /\ props \in Addresses
    /\ address = props
    /\ document = None
    /\ sharedTree = NoTree
    /\ revision = None
    /\ error = None
    /\ sharedTreeCache = [d \in Docs |-> NoTree]
    /\ activeDocument = None
    /\ policies = [d \in Docs |-> NoPolicy]
    /\ loads = {}
    /\ issued = 0
    /\ latest = [slug |-> None, st |-> None]
    /\ revFetches = {}
    /\ shareFetches = {}
    /\ user \in BOOLEAN
    /\ team = user
    /\ navs = 0
    /\ replaces = [s \in Slugs |-> 0]
    /\ lastEvent = NoEvent

\* componentDidMount (lines 50-57) with the synchronous start of loadDocument
\* (lines 162-170).  hit: documents.getByUrl finds the document in the store;
\* pol: the policy the store then holds for it.
Mount(hit, pol) ==
    /\ UNCHANGED <<treeVars, searchVars>>
    /\ phase = "new"
    /\ issued + navs < MaxRequests
    /\ LET d == IF hit THEN DocOf(props.slug) ELSE None
       IN  /\ document' = d
           /\ sharedTree' = IF d # None THEN sharedTreeCache[d] ELSE NoTree
           /\ policies' = IF d # None THEN [policies EXCEPT ![d] = pol]
                          ELSE policies
           /\ activeDocument' = IF d # None THEN d ELSE activeDocument
    /\ phase' = "mounted"
    /\ loads' = loads \cup Issue(<<props>>)
    /\ issued' = issued + 1
    /\ latest' = LatestAfter(<<props>>, latest)
    /\ lastEvent' = [NoEvent EXCEPT !.kind = "mount"]
    /\ UNCHANGED <<props, address, revision, error, sharedTreeCache, revFetches,
                   shareFetches, user, team, navs, replaces>>

\* The router hands the mounted loader new props; componentDidUpdate (lines
\* 59-86) runs with the previous props, calling loadDocument (162-170) and
\* loadRevision (157-158) up to their first await.
Navigate(a) ==
    /\ UNCHANGED <<treeVars, searchVars>>
    /\ phase = "mounted"
    /\ issued + navs < MaxRequests
    /\ navs' = navs + 1
    /\ a # props
    /\ LET reload == NeedsReload(document, policies, error, user)
           revload == NeedsRevision(props.revisionId, a.revisionId)
           new == IF reload THEN <<a>> ELSE <<>>
       IN  /\ issued + navs + 1 + Len(new) <= MaxRequests
           /\ loads' = loads \cup Issue(new)
           /\ issued' = issued + Len(new)
           /\ latest' = LatestAfter(new, latest)
           /\ activeDocument' = IF reload THEN document ELSE activeDocument
           /\ revFetches' = IF revload THEN revFetches \cup {a.revisionId}
                            ELSE revFetches
    /\ props' = a
    /\ address' = a
    /\ replaces' = [replaces EXCEPT ![a.slug] = 0]
    /\ lastEvent' = [NoEvent EXCEPT
                        !.kind = "navigate",
                        !.reloads = IF NeedsReload(document, policies, error, user)
                                    THEN 1 ELSE 0]
    /\ UNCHANGED <<phase, document, sharedTree, revision, error, sharedTreeCache,
                   policies, shareFetches, user, team>>

\* The navigation view is destroyed.  DataLoader defines no componentWillUnmount.
Unmount ==
    /\ UNCHANGED <<treeVars, searchVars>>
    /\ phase = "mounted"
    /\ phase' = "unmounted"
    /\ lastEvent' = [NoEvent EXCEPT !.kind = "unmount"]
    /\ UNCHANGED <<props, address, document, sharedTree, revision, error,
                   sharedTreeCache, activeDocument, policies, loads, issued,
                   latest, revFetches, shareFetches, user, team, navs, replaces>>

\* loadDocument lines 188-222, entered once the try block (169-182) has gone
\* through for load req, followed by the componentDidUpdate calls of the
\* re-renders it causes: one for the observable writes of this continuation,
\* one for the address change.
Resolve(req, kind, doc2, tree2, rev2, pols2, cache2) ==
    LET can == abilities(pols2, doc2)
        editing == isEditing(props)
        moving == isMove(props)
        denied == EditDenied(can, editing)
        canonicalUrl == updateDocumentUrl(props, doc2)
        replace == /\ ~denied
                   /\ canRedirect(req.revisionId, moving, req.shareId)
                   /\ ShouldReplace(props, canonicalUrl)
        nav == IF denied THEN "push" ELSE IF replace THEN "replace" ELSE None
        target == IF denied THEN DocumentUrl(doc2) ELSE canonicalUrl
        shareIssued == ~denied /\ can.read
        props2 == IF phase = "mounted" /\ nav # None THEN target ELSE props
        reload == phase = "mounted" /\ NeedsReload(doc2, pols2, error, user)
        obsChanged == Observed(error, document, revision, policies)
                          # Observed(error, doc2, rev2, pols2)
        new == (IF reload /\ obsChanged THEN <<props>> ELSE <<>>)
               \o (IF reload /\ nav # None THEN <<props2>> ELSE <<>>)
    IN  /\ issued + navs + Len(new) <= MaxRequests
        /\ document' = doc2
        /\ sharedTree' = tree2
        /\ revision' = rev2
        /\ policies' = pols2
        /\ sharedTreeCache' = cache2
        /\ activeDocument' = doc2
        /\ shareFetches' = IF shareIssued THEN shareFetches \cup {doc2}
                           ELSE shareFetches
        /\ address' = IF nav # None THEN target ELSE address
        /\ props' = props2
        /\ replaces' = IF nav = "replace"
                       THEN [replaces EXCEPT ![req.slug] = @ + 1]
                       ELSE replaces
        /\ loads' = (loads \ {req}) \cup Issue(new)
        /\ issued' = issued + Len(new)
        /\ latest' = LatestAfter(new, Outcome(req, "ok"))
        /\ lastEvent' = [kind |-> kind, slug |-> req.slug,
                         revisionId |-> req.revisionId, shareId |-> req.shareId,
                         wasMove |-> moving, wasEdit |-> editing, nav |-> nav,
                         shareIssued |-> shareIssued, resolved |-> TRUE,
                         reloads |-> Len(new)]
        /\ UNCHANGED <<phase, error, revFetches, user, team, navs>>

\* documents.fetch of load req succeeds (lines 170-182).  v: the navigation path
\* version of the response; pol: the policy the response carries (NoPolicy:
\* none, the store keeps what it has).
FetchOk(req, v, pol) ==
    /\ UNCHANGED <<treeVars, searchVars>>
    /\ req \in loads
    /\ req.st = "fetch"
    /\ LET d == DocOf(req.slug)
           tree2 == <<d, v>>
           pols2 == IF pol.present THEN [policies EXCEPT ![d] = pol] ELSE policies
           cache2 == CacheWrite(sharedTreeCache, d, tree2)
       IN  IF IsSpecificRevision(req.revisionId)
           THEN \* await this.loadRevision(): it reads the current props
                LET reload == /\ phase = "mounted"
                              /\ NeedsReload(d, pols2, error, user)
                              /\ Observed(error, document, revision, policies)
                                     # Observed(error, d, revision, pols2)
                    new == IF reload THEN <<props>> ELSE <<>>
                IN  /\ issued + navs + Len(new) <= MaxRequests
                    /\ document' = d
                    /\ sharedTree' = tree2
                    /\ policies' = pols2
                    /\ sharedTreeCache' = cache2
                    /\ activeDocument' = IF reload THEN d ELSE activeDocument
                    /\ loads' = (loads \ {req})
                                \cup {[req EXCEPT !.st = "rev",
                                                  !.rid = props.revisionId]}
                                \cup Issue(new)
                    /\ issued' = issued + Len(new)
                    /\ latest' = LatestAfter(new, latest)
                    /\ lastEvent' = [NoEvent EXCEPT !.kind = "fetchOk",
                                                     !.reloads = Len(new)]
                    /\ UNCHANGED <<phase, props, address, revision, error,
                                   revFetches, shareFetches, user, team, navs,
                                   replaces>>
           ELSE Resolve(req, "fetchOk", d, tree2, None, pols2, cache2)

\* The catch block (lines 183-186) for load req.
Caught(req, kind, e) ==
    /\ error' = e
    /\ loads' = loads \ {req}
    /\ latest' = Outcome(req, "err")
    /\ lastEvent' = [NoEvent EXCEPT !.kind = kind]
    /\ UNCHANGED <<phase, props, address, document, sharedTree, revision,
                   sharedTreeCache, activeDocument, policies, issued, revFetches,
                   shareFetches, user, team, navs, replaces>>

\* documents.fetch of load req rejects.
FetchErr(req, e) ==
    /\ UNCHANGED <<treeVars, searchVars>>
    /\ req \in loads
    /\ req.st = "fetch"
    /\ Caught(req, "fetchErr", e)

\* The revisions.fetch awaited inside loadDocument (line 179) resolves; only a
\* specific revision id can be found.
LoadRevOk(req) ==
    /\ UNCHANGED <<treeVars, searchVars>>
    /\ req \in loads
    /\ req.st = "rev"
    /\ IsSpecificRevision(req.rid)
    /\ Resolve(req, "loadRevOk", document, sharedTree, req.rid, policies,
               sharedTreeCache)

\* ... or rejects.
LoadRevErr(req, e) ==
    /\ UNCHANGED <<treeVars, searchVars>>
    /\ req \in loads
    /\ req.st = "rev"
    /\ Caught(req, "loadRevErr", e)

\* The revisions.fetch of a loadRevision started by componentDidUpdate (line
\* 84) resolves: line 158 assigns this.revision; the re-render's
\* componentDidUpdate may reload.
RevOk(r) ==
    /\ UNCHANGED <<treeVars, searchVars>>
    /\ r \in revFetches
    /\ LET reload == /\ phase = "mounted"
                     /\ NeedsReload(document, policies, error, user)
                     /\ Observed(error, document, revision, policies)
                            # Observed(error, document, r, policies)
           new == IF reload THEN <<props>> ELSE <<>>
       IN  /\ issued + navs + Len(new) <= MaxRequests
           /\ loads' = loads \cup Issue(new)
           /\ issued' = issued + Len(new)
           /\ latest' = LatestAfter(new, latest)
           /\ activeDocument' = IF reload THEN document ELSE activeDocument
           /\ lastEvent' = [NoEvent EXCEPT !.kind = "revOk",
                                            !.reloads = Len(new)]
    /\ revision' = r
    /\ revFetches' = revFetches \ {r}
    /\ UNCHANGED <<phase, props, address, document, sharedTree, error,
                   sharedTreeCache, policies, shareFetches, user, team, navs,
                   replaces>>

\* ... or rejects: nothing awaits or catches the promise of line 84.
RevErr(r, e) ==
    /\ UNCHANGED <<treeVars, searchVars>>
    /\ r \in revFetches
    /\ revFetches' = revFetches \ {r}
    /\ lastEvent' = [NoEvent EXCEPT !.kind = "revErr"]
    /\ UNCHANGED <<phase, props, address, document, sharedTree, revision, error,
                   sharedTreeCache, activeDocument, policies, loads, issued,
                   latest, shareFetches, user, team, navs, replaces>>

\* shares.fetch (line 207) resolves, or rejects with NotFoundError, which the
\* catch of lines 207-211 swallows.
ShareDone(d, found) ==
    /\ UNCHANGED <<treeVars, searchVars>>
    /\ d \in shareFetches
    /\ shareFetches' = shareFetches \ {d}
    /\ lastEvent' = [NoEvent EXCEPT
                        !.kind = IF found THEN "shareOk" ELSE "shareNotFound"]
    /\ UNCHANGED <<phase, props, address, document, sharedTree, revision, error,
                   sharedTreeCache, activeDocument, policies, loads, issued,
                   latest, revFetches, user, team, navs, replaces>>

\* ... or rejects with another error, which line 209 rethrows into a promise
\* nobody holds.
ShareErr(d, e) ==
    /\ UNCHANGED <<treeVars, searchVars>>
    /\ d \in shareFetches
    /\ e # "NotFound"
    /\ shareFetches' = shareFetches \ {d}
    /\ lastEvent' = [NoEvent EXCEPT !.kind = "shareErr"]
    /\ UNCHANGED <<phase, props, address, document, sharedTree, revision, error,
                   sharedTreeCache, activeDocument, policies, loads, issued,
                   latest, revFetches, user, team, navs, replaces>>

-----------------------------------------------------------------------------
(* Sidebar: input domains *)

MaxColMoves == 2       \* collections.move calls

Null == "null"         \* collection.permission === null
Cols == {"c1", "c2", "c3"}
TDocs == {"x", "y"}
Perms == {Null, "read", "read_write"}
\* the permission scopes of c1, c2, c3 the sidebar is loaded with
PermissionProfiles ==
    {[c \in Cols |-> IF c = "c1" THEN p[1] ELSE IF c = "c2" THEN p[2] ELSE p[3]] :
         p \in {<<Null, "read", "read_write">>, <<"read", "read", Null>>,
                <<Null, Null, "read">>}}
NoKey == <<>>
NoItem == [id |-> None, collectionId |-> None]

\* policies.abilities(collection.id): c3 is read-only for the user
ColAbilities(c) == [update |-> c # "c3", move |-> c # "c3"]
\* collection.sort.field === "index"
manualSort(c) == c # "c2"

NoTreeEvent == [kind |-> "init", item |-> None, from |-> None, target |-> None,
                below |-> None, outcome |-> None, effects |-> 0]

-----------------------------------------------------------------------------
(* Order keys: fractional-index, modelled on the rationals *)

RECURSIVE Gcd(_, _)
Gcd(a, b) == IF b = 0 THEN a ELSE Gcd(b, a % b)

Norm(k) == LET g == Gcd(k[1], k[2]) IN <<k[1] \div g, k[2] \div g>>

KeyLess(a, b) == a[1] * b[2] < b[1] * a[2]

\* fractionalIndex(a, b): a key strictly between a and b, or after a when b is
\* null
fractionalIndex(a, b) ==
    IF b = NoKey THEN Norm(<<a[1] + a[2], a[2]>>)
    ELSE Norm(<<a[1] * b[2] + b[1] * a[2], 2 * a[2] * b[2]>>)

\* Collections.js passes belowCollection = orderedCollections[index + 1]: the
\* collection with the next greater order key, or None
BelowCollection(c) ==
    LET after == {o \in Cols : KeyLess(colIndex[c], colIndex[o])}
    IN  IF after = {} THEN None
        ELSE CHOOSE o \in after : \A q \in after : ~KeyLess(colIndex[q], colIndex[o])

\* mutant: the below neighbour's key is never read
belowCollectionIndex_AlwaysNull(c) == NoKey

\* line 81
belowCollectionIndex(c) ==
    IF BelowCollection(c) # None THEN colIndex[BelowCollection(c)] ELSE NoKey

-----------------------------------------------------------------------------
(* Documents store *)

Remove(seq, d) == SelectSeq(seq, LAMBDA e : e # d)

\* the `index` argument of documents.move: undefined, or a position
NoIndex == <<>>
IndexZero == <<0>>

InsertAt(seq, i, d) ==
    LET k == IF i > Len(seq) THEN Len(seq) ELSE i
    IN  SubSeq(seq, 1, k) \o <<d>> \o SubSeq(seq, k + 1, Len(seq))

\* what a document drop can write: the documents store and the confirmation
\* state of the collection links
TreeNow == [docCollection |-> docCollection, docParent |-> docParent,
            colDocuments |-> colDocuments, permissionOpen |-> permissionOpen,
            itemRef |-> itemRef]

\* documents.move(id, collectionId, parentDocumentId = undefined, index) on
\* tree t: the node, with its children, becomes a top-level node of the
\* collection, at `index` when given (undefined: appended)
Moved(t, d, c, index) ==
    [t EXCEPT
        !.docCollection = [e \in TDocs |->
                              IF e = d \/ t.docParent[e] = d THEN c
                              ELSE t.docCollection[e]],
        !.docParent = [t.docParent EXCEPT ![d] = None],
        !.colDocuments = [o \in Cols |->
                             LET rest == Remove(t.colDocuments[o], d)
                             IN  IF o # c THEN rest
                                 ELSE IF index = NoIndex THEN Append(rest, d)
                                 ELSE InsertAt(rest, index[1], d)]]

\* documents.move applied to the store
MoveDocument(d, c, index) ==
    LET t == Moved(TreeNow, d, c, index)
    IN  /\ docCollection' = t.docCollection
        /\ docParent' = t.docParent
        /\ colDocuments' = t.colDocuments

docStore == <<docCollection, docParent, colDocuments>>

-----------------------------------------------------------------------------
(* CollectionLink: pure helpers *)

\* mutant: the body zone without its own-collection test
SameCollection_Never(c, collectionId) == FALSE

\* line 90: `collection.id === collectionId`
SameCollection(c, collectionId) == c = collectionId

\* mutant: the confirmation asked when the source scope is not null
NeedsPermissionConfirm_NonNull(prevPermission, permission) ==
    /\ prevPermission # Null
    /\ prevPermission # permission

\* lines 93-97: the drop needs the permission confirmation
NeedsPermissionConfirm(prevPermission, permission) ==
    /\ prevPermission = Null
    /\ prevPermission # permission

\* lines 104-106: canDrop of the re-parent zone
canDropDocument(c) == ColAbilities(c).update

\* mutant: the body handler does not ask whether a nested target handled the
\* drop
didDrop_Never(handled) == FALSE

\* line 88: monitor.didDrop(), true when a nested target has handled the drop
didDrop(handled) == handled

\* mutant: canDrop without its below-neighbour test
canDropCollection_IgnoresBelow(itemId, c, below) == c # itemId

\* lines 134-139: canDrop of the collection reorder zone
canDropCollection(itemId, c, below) ==
    /\ c # itemId
    /\ (below = None \/ itemId # below)

\* mutant: the effect without its starred-view return
IsStarredView_Never(srch) == FALSE

\* line 69: `search === "?starred"`
IsStarredView(srch) == srch = "?starred"

\* mutant: the effect without its dragging branch
ExpandedEffect_IgnoresDragging(cur, c, srch, draggingAny, active) ==
    IF IsStarredView(srch) THEN cur
    ELSE c = active

\* lines 66-77: the expanded effect of one CollectionLink
ExpandedEffect(cur, c, srch, draggingAny, active) ==
    IF IsStarredView(srch) THEN cur
    ELSE IF draggingAny THEN FALSE
    ELSE c = active

ModalOpen == \E c \in Cols : permissionOpen[c]

-----------------------------------------------------------------------------
(* Sidebar: initial state *)

\* the sidebar as first rendered while collection `active` (or None) is the
\* active one
InitTreeAt(active) ==
    /\ colIndex = [c \in Cols |-> IF c = "c1" THEN <<1, 1>>
                                  ELSE IF c = "c2" THEN <<2, 1>> ELSE <<3, 1>>]
    /\ colPermission \in PermissionProfiles
    /\ \E cx \in {"c1"}, nested \in BOOLEAN, cy \in {"c1", "c2"} :
          /\ docCollection = [d \in TDocs |->
                                 IF d = "x" \/ nested THEN cx ELSE cy]
          /\ docParent = [d \in TDocs |->
                             IF d = "y" /\ nested THEN "x" ELSE None]
          /\ colDocuments = [c \in Cols |->
                                (IF c = cx THEN <<"x">> ELSE <<>>)
                                \o (IF ~nested /\ c = cy THEN <<"y">> ELSE <<>>)]
    /\ activeCollectionId = active
    /\ search = ""
    /\ expanded = [c \in Cols |-> c = activeCollectionId]
    /\ permissionOpen = [c \in Cols |-> FALSE]
    /\ itemRef = [c \in Cols |-> NoItem]
    /\ dragging = None
    /\ colMoves = 0
    /\ treeEvent = NoTreeEvent

InitTree == InitTreeAt(None)

-----------------------------------------------------------------------------
(* CollectionLink: handlers *)

\* The drop handler of the body zone of collection c (lines 86-103) run on
\* tree t for the dragged item; handled: a nested target took the drop before.
\* Gives the tree it leaves and what it did.
BodyDrop(t, c, item, handled) ==
    IF didDrop(handled)
    THEN [tree |-> t, outcome |-> "handled"]
    ELSE IF SameCollection(c, item.collectionId)
    THEN [tree |-> t, outcome |-> "noop"]
    ELSE IF NeedsPermissionConfirm(colPermission[item.collectionId],
                                   colPermission[c])
    THEN [tree |-> [t EXCEPT !.itemRef[c] = item, !.permissionOpen[c] = TRUE],
          outcome |-> "confirm"]
    ELSE [tree |-> Moved(t, item.id, c, NoIndex), outcome |-> "move"]

\* the tree a drop gesture leaves
WriteTree(t) ==
    /\ docCollection' = t.docCollection
    /\ docParent' = t.docParent
    /\ colDocuments' = t.colDocuments
    /\ permissionOpen' = t.permissionOpen
    /\ itemRef' = t.itemRef

\* A document d is dropped on the body of collection c (lines 84-111).  The
\* drag item carries the document's id and its collection's id.
DropDocumentOnBody(c, d) ==
    /\ UNCHANGED <<loaderVars, searchVars>>
    /\ ~ModalOpen
    /\ dragging = None
    /\ LET item == [id |-> d, collectionId |-> docCollection[d]]
           ev == [NoTreeEvent EXCEPT !.kind = "dropBody", !.item = d,
                                     !.from = item.collectionId, !.target = c]
           r == BodyDrop(TreeNow, c, item, FALSE)
       IN  IF ~canDropDocument(c)
           THEN /\ treeEvent' = [ev EXCEPT !.outcome = "rejected"]
                /\ UNCHANGED <<docStore, permissionOpen, itemRef>>
           ELSE /\ WriteTree(r.tree)
                /\ treeEvent' = [ev EXCEPT
                                    !.outcome = r.outcome,
                                    !.effects = IF r.outcome \in {"move", "confirm"}
                                                THEN 1 ELSE 0]
    /\ UNCHANGED <<colIndex, colPermission, activeCollectionId, search, expanded,
                   dragging, colMoves>>

\* A document d is dropped on the top-edge cursor of collection c (lines
\* 113-123), which is rendered when the collection is expanded and manually
\* sorted (lines 212-214).  The cursor lies inside the body zone (line 167):
\* its handler runs first, then the body zone's, when that zone can drop.
DropDocumentOnReorder(c, d) ==
    /\ UNCHANGED <<loaderVars, searchVars>>
    /\ ~ModalOpen
    /\ dragging = None
    /\ expanded[c]
    /\ manualSort(c)
    /\ LET item == [id |-> d, collectionId |-> docCollection[d]]
           t1 == Moved(TreeNow, d, c, IndexZero)
           r == IF canDropDocument(c) THEN BodyDrop(t1, c, item, TRUE)
                ELSE [tree |-> t1, outcome |-> "rejected"]
       IN  /\ WriteTree(r.tree)
           /\ treeEvent' = [NoTreeEvent EXCEPT
                               !.kind = "dropReorder", !.item = d,
                               !.from = item.collectionId, !.target = c,
                               !.outcome = "move",
                               !.effects = IF r.outcome \in {"move", "confirm"}
                                           THEN 2 ELSE 1]
    /\ UNCHANGED <<colIndex, colPermission, activeCollectionId, search, expanded,
                   dragging, colMoves>>

\* DocumentReparent's submit: documents.move(item.id, collection.id), then
\* onSubmit = handlePermissionClose (lines 241-246).
ConfirmReparent(c) ==
    /\ UNCHANGED <<loaderVars, searchVars>>
    /\ permissionOpen[c]
    /\ MoveDocument(itemRef[c].id, c, NoIndex)
    /\ permissionOpen' = [permissionOpen EXCEPT ![c] = FALSE]
    /\ treeEvent' = [NoTreeEvent EXCEPT !.kind = "confirm", !.item = itemRef[c].id,
                                       !.from = itemRef[c].collectionId,
                                       !.target = c, !.outcome = "move",
                                       !.effects = 1]
    /\ UNCHANGED <<colIndex, colPermission, activeCollectionId, search, expanded,
                   itemRef, dragging, colMoves>>

\* onCancel / onRequestClose = handlePermissionClose (lines 238, 245).
CancelReparent(c) ==
    /\ UNCHANGED <<loaderVars, searchVars>>
    /\ permissionOpen[c]
    /\ permissionOpen' = [permissionOpen EXCEPT ![c] = FALSE]
    /\ treeEvent' = [NoTreeEvent EXCEPT !.kind = "cancel", !.item = itemRef[c].id,
                                       !.from = itemRef[c].collectionId,
                                       !.target = c, !.outcome = "noop"]
    /\ UNCHANGED <<colIndex, colPermission, docStore, activeCollectionId, search,
                   expanded, itemRef, dragging, colMoves>>

\* the expanded effect of every CollectionLink, run after a render in which
\* one of its dependencies changed
RunEffects(srch, draggingAny, active) ==
    expanded' = [c \in Cols |->
                    ExpandedEffect(expanded[c], c, srch, draggingAny, active)]

\* A drag of collection c begins (lines 146-159): onChangeDragging(true).
DragCollection(c) ==
    /\ UNCHANGED <<loaderVars, searchVars>>
    /\ ~ModalOpen
    /\ dragging = None
    /\ ColAbilities(c).move
    /\ dragging' = c
    /\ RunEffects(search, TRUE, activeCollectionId)
    /\ treeEvent' = [NoTreeEvent EXCEPT !.kind = "dragBegin", !.item = c]
    /\ UNCHANGED <<colIndex, colPermission, docStore, activeCollectionId, search,
                   permissionOpen, itemRef, colMoves>>

\* The dragged collection is released over the reorder cursor of collection c
\* (lines 126-143), then the drag ends (lines 160-162): onChangeDragging(false).
DropCollection(c) ==
    /\ UNCHANGED <<loaderVars, searchVars>>
    /\ dragging # None
    /\ LET below == BelowCollection(c)
           ok == canDropCollection(dragging, c, below)
       IN  /\ colMoves + (IF ok THEN 1 ELSE 0) <= MaxColMoves
           /\ colIndex' = IF ok
                          THEN [colIndex EXCEPT ![dragging] =
                                   fractionalIndex(colIndex[c],
                                                   belowCollectionIndex(c))]
                          ELSE colIndex
           /\ colMoves' = colMoves + (IF ok THEN 1 ELSE 0)
           /\ treeEvent' = [NoTreeEvent EXCEPT
                               !.kind = "dropCollection", !.item = dragging,
                               !.target = c, !.below = below,
                               !.outcome = IF ok THEN "move" ELSE "rejected"]
    /\ dragging' = None
    /\ RunEffects(search, FALSE, activeCollectionId)
    /\ UNCHANGED <<colPermission, docStore, activeCollectionId, search,
                   permissionOpen, itemRef>>

\* The drag ends outside every cursor (lines 160-162).
DragCollectionEnd ==
    /\ UNCHANGED <<loaderVars, searchVars>>
    /\ dragging # None
    /\ dragging' = None
    /\ RunEffects(search, FALSE, activeCollectionId)
    /\ treeEvent' = [NoTreeEvent EXCEPT !.kind = "dragEnd", !.item = dragging]
    /\ UNCHANGED <<colIndex, colPermission, docStore, activeCollectionId, search,
                   permissionOpen, itemRef, colMoves>>

\* ui.activeCollectionId changes (a dependency of the effect, line 77).
SetActiveCollection(a) ==
    /\ UNCHANGED <<loaderVars, searchVars>>
    /\ a # activeCollectionId
    /\ activeCollectionId' = a
    /\ RunEffects(search, dragging # None, a)
    /\ treeEvent' = [NoTreeEvent EXCEPT !.kind = "active", !.item = a]
    /\ UNCHANGED <<colIndex, colPermission, docStore, search, permissionOpen,
                   itemRef, dragging, colMoves>>

\* location.search changes (a dependency of the effect, line 77).
SetSearch(q) ==
    /\ UNCHANGED <<loaderVars, searchVars>>
    /\ q # search
    /\ search' = q
    /\ RunEffects(q, dragging # None, activeCollectionId)
    /\ treeEvent' = [NoTreeEvent EXCEPT !.kind = "search"]
    /\ UNCHANGED <<colIndex, colPermission, docStore, activeCollectionId,
                   permissionOpen, itemRef, dragging, colMoves>>

-----------------------------------------------------------------------------
(* DataLoader.onSearchLink: input domains and pure helpers *)

MaxResults == 3        \* length of the list documents.searchTitles returns

\* titles and terms are sequences of the characters a b A B Á á /
\* the documents the title search and the lookup can return, by url
SearchDocs == {"t1", "t2", "t3", "t4"}
\* document.title
Title(d) ==
    IF d = "t1" THEN <<"Á", "b">>
    ELSE IF d = "t2" THEN <<"b", "a">>
    ELSE IF d = "t3" THEN <<"a", "b">>
    ELSE <<"B">>
\* the terms the editor asks for
Terms == {<<>>, <<"a">>, <<"Á">>, <<"b">>, <<"A", "B">>, <<"/", "a">>,
          <<"/", "b">>}
\* the lists documents.searchTitles can return: distinct documents, any order
ResultLists ==
    {l \in UNION {[1..n -> SearchDocs] : n \in 0..MaxResults} :
         \A i, j \in 1..Len(l) : i # j => l[i] # l[j]}

NoLinkEvent == [kind |-> "none", error |-> None, hit |-> None]

\* isInternalUrl(term): a relative address
isInternalUrl(term) == Len(term) > 0 /\ term[1] = "/"

\* lodash deburr, one character
DeburrChar(ch) == IF ch = "Á" THEN "A" ELSE IF ch = "á" THEN "a" ELSE ch

\* String.prototype.toLowerCase, one character
LowerChar(ch) ==
    IF ch = "A" THEN "a" ELSE IF ch = "B" THEN "b"
    ELSE IF ch = "Á" THEN "á" ELSE ch

deburr(str) == [i \in 1..Len(str) |-> DeburrChar(str[i])]

toLowerCase(str) == [i \in 1..Len(str) |-> LowerChar(str[i])]

\* String.prototype.startsWith
startsWith(str, prefix) ==
    /\ Len(prefix) <= Len(str)
    /\ SubSeq(str, 1, Len(prefix)) = prefix

\* lines 123-132: the entry built for a document
LinkEntry(d) == [title |-> Title(d), url |-> d]

Entries(list) == [i \in 1..Len(list) |-> LinkEntry(list[i])]

\* mutant: the iteratee without deburr on the title
SearchRank_NoDeburr(entry, term) ==
    IF startsWith(toLowerCase(entry.title), toLowerCase(deburr(term)))
    THEN -1 ELSE 1

\* lines 133-138: the iteratee handed to sortBy
SearchRank(entry, term) ==
    IF startsWith(toLowerCase(deburr(entry.title)), toLowerCase(deburr(term)))
    THEN -1 ELSE 1

\* lodash sortBy: ascending by the iteratee's value, stable.  Computed by
\* insertion: each entry goes behind every entry already placed whose value is
\* not greater.
InsertByRank(sorted, e, term) ==
    LET k == Cardinality({i \in 1..Len(sorted) :
                             SearchRank(sorted[i], term) <= SearchRank(e, term)})
    IN  SubSeq(sorted, 1, k) \o <<e>> \o SubSeq(sorted, k + 1, Len(sorted))

RECURSIVE sortBy(_, _)
sortBy(list, term) ==
    IF list = <<>> THEN <<>>
    ELSE InsertByRank(sortBy(SubSeq(list, 1, Len(list) - 1), term),
                      list[Len(list)], term)

\* mutant: the catch of the lookup swallows every error
LookupFallsThrough_Always(e) == TRUE

\* line 113: the catch of the lookup rethrows all but NotFoundError
LookupFallsThrough(e) == e = "NotFound"

-----------------------------------------------------------------------------
(* DataLoader.onSearchLink: steps of one call *)

InitSearch ==
    /\ linkTerm = <<>>
    /\ linkStage = "idle"
    /\ linkResults = <<>>
    /\ linkOutput = <<>>
    /\ linkError = None
    /\ titleSearches = 0
    /\ linkEvent = NoLinkEvent

\* onSearchLink(term) up to its first await (lines 92-99 or 120).
SearchLink(term) ==
    /\ UNCHANGED <<loaderVars, treeVars>>
    /\ linkStage \in {"idle", "done", "failed"}
    /\ linkTerm' = term
    /\ linkStage' = IF isInternalUrl(term) THEN "lookup" ELSE "titles"
    /\ titleSearches' = IF isInternalUrl(term) THEN 0 ELSE 1
    /\ linkResults' = <<>>
    /\ linkOutput' = <<>>
    /\ linkError' = None
    /\ linkEvent' = [NoLinkEvent EXCEPT !.kind = "call"]

\* documents.fetch(slug) resolves with document d (lines 97-110).
LookupOk(d) ==
    /\ UNCHANGED <<loaderVars, treeVars>>
    /\ linkStage = "lookup"
    /\ linkOutput' = <<LinkEntry(d)>>
    /\ linkStage' = "done"
    /\ linkEvent' = [NoLinkEvent EXCEPT !.kind = "lookupOk", !.hit = d]
    /\ UNCHANGED <<linkTerm, linkResults, linkError, titleSearches>>

\* documents.fetch(slug) rejects with e (lines 111-116), then line 120 when
\* the catch falls through.
LookupErr(e) ==
    /\ UNCHANGED <<loaderVars, treeVars>>
    /\ linkStage = "lookup"
    /\ IF LookupFallsThrough(e)
       THEN /\ linkStage' = "titles"
            /\ titleSearches' = titleSearches + 1
            /\ linkError' = linkError
       ELSE /\ linkStage' = "failed"
            /\ titleSearches' = titleSearches
            /\ linkError' = e
    /\ linkEvent' = [NoLinkEvent EXCEPT !.kind = "lookupErr", !.error = e]
    /\ UNCHANGED <<linkTerm, linkResults, linkOutput>>

\* documents.searchTitles(term) resolves with `results` (lines 120-139).
TitlesOk(results) ==
    /\ UNCHANGED <<loaderVars, treeVars>>
    /\ linkStage = "titles"
    /\ linkResults' = results
    /\ linkOutput' = sortBy(Entries(results), linkTerm)
    /\ linkStage' = "done"
    /\ linkEvent' = [NoLinkEvent EXCEPT !.kind = "titlesOk"]
    /\ UNCHANGED <<linkTerm, linkError, titleSearches>>

\* documents.searchTitles(term) rejects: the helper's promise rejects.
TitlesErr(e) ==
    /\ UNCHANGED <<loaderVars, treeVars>>
    /\ linkStage = "titles"
    /\ linkStage' = "failed"
    /\ linkError' = e
    /\ linkEvent' = [NoLinkEvent EXCEPT !.kind = "titlesErr", !.error = e]
    /\ UNCHANGED <<linkTerm, linkResults, linkOutput, titleSearches>>

-----------------------------------------------------------------------------
(* Specifications *)

\* the loader with no request made
LoaderIdle ==
    /\ InitLoader
    /\ props = DocumentUrl("d1")
    /\ user

\* the sidebar at rest
TreeIdleAt(active) ==
    /\ InitTreeAt(active)
    /\ colPermission = [c \in Cols |-> IF c = "c3" THEN "read" ELSE Null]
    /\ docCollection = [d \in TDocs |-> "c1"]
    /\ docParent = [d \in TDocs |-> None]

TreeIdle == TreeIdleAt(None)

\* Spec: the document loader
Init == InitLoader /\ TreeIdle /\ InitSearch

Next ==
    \/ \E hit \in BOOLEAN, pol \in Policies : Mount(hit, pol)
    \/ \E a \in Addresses : Navigate(a)
    \/ Unmount
    \/ \E req \in loads, v \in TreeVers, pol \in Policies : FetchOk(req, v, pol)
    \/ \E req \in loads, e \in Errors : FetchErr(req, e)
    \/ \E req \in loads : LoadRevOk(req)
    \/ \E req \in loads, e \in Errors : LoadRevErr(req, e)
    \/ \E r \in RevIds : RevOk(r)
    \/ \E r \in RevIds, e \in Errors : RevErr(r, e)
    \/ \E d \in Docs, found \in BOOLEAN : ShareDone(d, found)
    \/ \E d \in Docs, e \in Errors : ShareErr(d, e)

Spec == Init /\ [][Next]_vars

\* SpecTree: documents dropped on the collection links
InitT == LoaderIdle /\ InitTree /\ InitSearch

NextT ==
    \/ \E c \in Cols, d \in TDocs : DropDocumentOnBody(c, d)
    \/ \E c \in Cols, d \in TDocs : DropDocumentOnReorder(c, d)
    \/ \E c \in Cols : ConfirmReparent(c)
    \/ \E c \in Cols : CancelReparent(c)
    \/ \E a \in Cols \cup {None} : SetActiveCollection(a)
    \/ \E q \in {"", "?starred"} : SetSearch(q)

SpecTree == InitT /\ [][NextT]_vars

\* SpecCols: collections dragged onto the collection links
InitC == LoaderIdle /\ InitSearch /\ \E a \in Cols \cup {None} : TreeIdleAt(a)

NextC ==
    \/ \E c \in Cols : DragCollection(c)
    \/ \E c \in Cols : DropCollection(c)
    \/ DragCollectionEnd
    \/ \E a \in Cols \cup {None} : SetActiveCollection(a)
    \/ \E q \in {"", "?starred"} : SetSearch(q)

SpecCols == InitC /\ [][NextC]_vars

\* SpecCache: the loader on plain document addresses, signed in, while the
\* server's navigation path changes between fetches
PathVers == {1, 2}
PlainAddresses == {a \in Addresses : a.mode = "view" /\ a.revisionId = None
                                     /\ a.shareId = None}

InitK ==
    /\ InitLoader
    /\ props \in PlainAddresses
    /\ user
    /\ TreeIdle
    /\ InitSearch

NextK ==
    \/ \E hit \in BOOLEAN, pol \in Policies : Mount(hit, pol)
    \/ \E a \in PlainAddresses : Navigate(a)
    \/ Unmount
    \/ \E req \in loads, v \in PathVers, pol \in Policies : FetchOk(req, v, pol)
    \/ \E req \in loads, e \in Errors : FetchErr(req, e)
    \/ \E d \in Docs, found \in BOOLEAN : ShareDone(d, found)
    \/ \E d \in Docs, e \in Errors : ShareErr(d, e)

SpecCache == InitK /\ [][NextK]_vars

\* SpecSearch: the link search of the loader
InitS == LoaderIdle /\ TreeIdle /\ InitSearch

NextS ==
    \/ \E term \in Terms : SearchLink(term)
    \/ \E d \in SearchDocs : LookupOk(d)
    \/ \E e \in Errors : LookupErr(e)
    \/ \E results \in ResultLists : TitlesOk(results)
    \/ \E e \in Errors : TitlesErr(e)

SpecSearch == InitS /\ [][NextS]_vars

-----------------------------------------------------------------------------
(* Claims about the document loader, checked under Spec *)

\* C1: the most recently issued resolution request decides the visible state:
\* once it has resolved, the held document, the shared tree and the active
\* document id are those of its slug, whatever older responses arrive later.
C1_LatestRequestWins ==
    latest.st = "ok" =>
        /\ document = DocOf(latest.slug)
        /\ sharedTree # NoTree /\ sharedTree[1] = DocOf(latest.slug)
        /\ activeDocument = DocOf(latest.slug)

\* C2: once the loader is unmounted, no fetch completion writes to the loader
\* state, the active document id, the shared-tree cache or the address.
C2_NoWritesAfterUnmount ==
    [][phase = "unmounted" =>
          UNCHANGED <<document, revision, error, sharedTree, activeDocument,
                      sharedTreeCache, address>>]_vars

\* C3: a failed entity fetch leaves the loader errored, and errored is
\* terminal: the error is never cleared, no further loadDocument is issued,
\* and render gives the error view of the recorded failure (offline iff it is
\* Offline), never the document view.
C3_ErroredIsTerminal ==
    /\ [](lastEvent.kind \in {"fetchErr", "loadRevErr"} => error # None)
    /\ [][error # None =>
             /\ error' # None
             /\ issued' = issued
             /\ View'.view = IF error' = "Offline" THEN "ErrorOffline"
                             ELSE "Error404"]_vars

\* C3 witness: the loader is errored and a fetch that was still in flight has
\* since resolved a document.
C3_Witness ==
    /\ error # None
    /\ lastEvent.resolved
    /\ document # None

\* C4: every failed fetch (entity, revision, share-info other than NotFound)
\* leaves the loader in the errored state.
C4_EveryFailureObservable ==
    lastEvent.kind \in {"fetchErr", "loadRevErr", "revErr", "shareErr"}
        => error # None

\* C5: history.replace is called only by a load that captured no revisionId
\* and no shareId, and only while the current address is not a move address.
C5_ReplaceOnlyWhenAllowed ==
    lastEvent.nav = "replace" =>
        /\ lastEvent.revisionId = None
        /\ lastEvent.shareId = None
        /\ ~lastEvent.wasMove

\* C5 witness: a load has replaced the address with the canonical one.
C5_Witness ==
    /\ lastEvent.nav = "replace"
    /\ address.slug = UrlSlugOf(document)

\* C6: a load that is not revision-pinned, not at a move address and without
\* share context, and whose document's canonical address differs from the
\* requested one, has resolved: exactly one history.replace was issued for the
\* requested address.
C6_ExactlyOneReplacement ==
    (/\ lastEvent.resolved
     /\ lastEvent.revisionId = None
     /\ lastEvent.shareId = None
     /\ ~lastEvent.wasMove
     /\ lastEvent.slug # UrlSlugOf(document))
        => replaces[lastEvent.slug] = 1

\* C7: a load that resolves in edit mode for a document whose abilities deny
\* update pushes the document's url and issues neither shares.fetch nor
\* history.replace; render never hands out isEditing with readOnly false for a
\* document whose abilities deny update.
C7_EditDowngrade ==
    /\ (lastEvent.resolved /\ lastEvent.wasEdit /\ ~abilities(policies, document).update)
           => /\ lastEvent.nav = "push"
              /\ address = DocumentUrl(document)
              /\ ~lastEvent.shareIssued
    /\ (View.view = "Document" /\ ~abilities(policies, View.document).update)
           => ~(View.isEditing /\ ~View.readOnly)

\* C7 witness: an edit-mode load was downgraded.
C7_Witness ==
    /\ lastEvent.resolved
    /\ lastEvent.wasEdit
    /\ ~abilities(policies, document).update
    /\ lastEvent.nav = "push"

\* C16: componentDidUpdate calls loadDocument exactly when the loader holds a
\* document whose policy is absent, no error is recorded and a user is signed
\* in: a navigation issues one load iff that holds, and no handler issues a
\* reload when it does not.
C16_ReloadExactlyWhenNeeded ==
    LET needs == /\ document # None
                 /\ ~policies[document].present
                 /\ error = None
                 /\ user
    IN  /\ lastEvent.kind = "navigate" =>
              lastEvent.reloads = (IF needs THEN 1 ELSE 0)
        /\ lastEvent.reloads > 0 => (needs /\ phase = "mounted")

\* C16 witness: a navigation re-issued the fetch for a held document without
\* a policy while the mount's fetch is still pending.
C16_Witness ==
    /\ lastEvent.kind = "navigate"
    /\ lastEvent.reloads = 1
    /\ issued = 2
    /\ Cardinality(loads) = 2
    /\ \A l \in loads : l.st = "fetch"
    /\ document # None
    /\ ~policies[document].present

\* C17: the cache entry of a document changes only in a step in which an
\* entity fetch succeeded with that document, and is then the navigation path
\* of that response, replacing what was there; a failed fetch leaves the cache
\* as it is and no entry is ever removed.
C17_CacheWrittenOnSuccessOnly ==
    [][
        /\ \A d \in Docs :
              sharedTreeCache'[d] # sharedTreeCache[d] =>
                  (lastEvent'.kind = "fetchOk" /\ document' = d)
        /\ lastEvent'.kind = "fetchOk" =>
              /\ sharedTree' # NoTree
              /\ sharedTree'[1] = document'
              /\ sharedTreeCache'[document'] = sharedTree'
        /\ lastEvent'.kind = "fetchErr" => sharedTreeCache' = sharedTreeCache
        /\ \A d \in Docs :
              sharedTreeCache[d] # NoTree => sharedTreeCache'[d] # NoTree
    ]_vars

\* C17 witness: a second successful fetch of a document replaced the path the
\* cache held for it with a newer one.
C17_Witness ==
    /\ lastEvent.kind = "fetchOk"
    /\ sharedTreeCache[document] = <<document, 2>>
    /\ issued >= 2
    /\ loads = {}

\* C20: on a resolved document, once no fetch is in flight, the revision
\* handed to the presentation is the one the current revisionId names: that
\* revision when the id is specific, none when it is absent or "latest".
C20_RevisionMatchesRequest ==
    (/\ phase = "mounted"
     /\ document # None
     /\ error = None
     /\ loads = {}
     /\ revFetches = {}
     /\ shareFetches = {})
        => revision = (IF IsSpecificRevision(props.revisionId)
                       THEN props.revisionId ELSE None)

-----------------------------------------------------------------------------
(* Claims about document drops, checked under SpecTree *)

BodyDropHandled ==
    treeEvent.kind = "dropBody" /\ treeEvent.outcome \in {"move", "confirm"}

\* C8 (as claimed): a document dropped on the body of another collection is
\* held for confirmation exactly when the source collection's permission
\* differs from the target's and is not null; otherwise it is moved at once.
C8_ConfirmWhenSourceScoped ==
    BodyDropHandled =>
        (treeEvent.outcome = "confirm"
            <=> /\ colPermission[treeEvent.from] # colPermission[treeEvent.target]
                /\ colPermission[treeEvent.from] # Null)

\* C8 (amended): the drop is held for confirmation exactly when the source
\* collection's permission is null and differs from the target's: the item is
\* recorded, the confirmation opens on the target and the document stays
\* where it is until the confirmation is submitted; cancelling leaves the
\* store unchanged.  Every other accepted drop moves the document at once.
C8_ConfirmWhenLeavingNullScope ==
    /\ [](BodyDropHandled =>
            IF /\ colPermission[treeEvent.from] = Null
               /\ colPermission[treeEvent.from] # colPermission[treeEvent.target]
            THEN /\ treeEvent.outcome = "confirm"
                 /\ permissionOpen[treeEvent.target]
                 /\ itemRef[treeEvent.target] =
                        [id |-> treeEvent.item, collectionId |-> treeEvent.from]
                 /\ docCollection[treeEvent.item] = treeEvent.from
            ELSE /\ treeEvent.outcome = "move"
                 /\ ~ModalOpen
                 /\ docCollection[treeEvent.item] = treeEvent.target)
    /\ [][\A c \in Cols :
             permissionOpen[c] =>
                 \/ /\ treeEvent'.kind = "confirm"
                    /\ ~permissionOpen'[c]
                    /\ docCollection'[itemRef[c].id] = c
                 \/ UNCHANGED docStore]_vars

\* C8 witness: a drop out of a null-permission collection waits for its
\* confirmation.
C8_Witness ==
    /\ treeEvent.kind = "dropBody"
    /\ treeEvent.outcome = "confirm"
    /\ colPermission[treeEvent.from] = Null
    /\ permissionOpen[treeEvent.target]
    /\ docCollection[treeEvent.item] = treeEvent.from

\* C9 (as claimed): a document dropped on a zone of the collection it belongs
\* to causes no move.
C9_OwnCollectionDropIsNoop ==
    (/\ treeEvent.kind \in {"dropBody", "dropReorder"}
     /\ treeEvent.from = treeEvent.target)
        => treeEvent.outcome \in {"noop", "rejected"}

\* C9 (amended): a document dropped on the body zone of the collection it
\* belongs to causes no move and no confirmation and leaves the documents
\* store unchanged; dropped on a collection's top-edge cursor it is moved to
\* index 0 of that collection's top level, also within its own collection.
C9_OwnCollectionBodyDropIsNoop ==
    /\ []((treeEvent.kind = "dropBody" /\ treeEvent.from = treeEvent.target)
             => treeEvent.outcome \in {"noop", "rejected"})
    /\ [][(treeEvent'.kind = "dropBody" /\ treeEvent'.from = treeEvent'.target)
             => UNCHANGED <<docStore, permissionOpen, itemRef>>]_vars
    /\ [](treeEvent.kind = "dropReorder" =>
             /\ treeEvent.outcome = "move"
             /\ docCollection[treeEvent.item] = treeEvent.target
             /\ docParent[treeEvent.item] = None
             /\ colDocuments[treeEvent.target][1] = treeEvent.item)

\* C9 witness: a document was dropped on the body of its own collection, which
\* the user may update.
C9_Witness ==
    /\ treeEvent.kind = "dropBody"
    /\ treeEvent.from = treeEvent.target
    /\ treeEvent.outcome = "noop"

\* C18: a document drop on either zone of a collection moves the document
\* into that collection only if the collection's abilities grant update.
C18_DropNeedsUpdate ==
    (/\ treeEvent.kind \in {"dropBody", "dropReorder", "confirm"}
     /\ treeEvent.outcome = "move")
        => ColAbilities(treeEvent.target).update

\* C19: one drop gesture has at most one effect on the tree; a drop on the
\* top-edge cursor issues the move to index 0 only: the enclosing body zone
\* adds no second move and opens no confirmation.
C19_OneEffectPerDrop ==
    /\ treeEvent.effects <= 1
    /\ treeEvent.kind = "dropReorder" =>
          /\ treeEvent.effects = 1
          /\ docCollection[treeEvent.item] = treeEvent.target
          /\ colDocuments[treeEvent.target][1] = treeEvent.item
          /\ ~ModalOpen

\* C19 witness: a document of another collection was dropped on the cursor of
\* a collection that holds documents and whose body zone accepts drops.
C19_Witness ==
    /\ treeEvent.kind = "dropReorder"
    /\ treeEvent.from # treeEvent.target
    /\ canDropDocument(treeEvent.target)
    /\ Len(colDocuments[treeEvent.target]) >= 2
    /\ colDocuments[treeEvent.target][1] = treeEvent.item

-----------------------------------------------------------------------------
(* Claims about collection drops, checked under SpecCols *)

\* C10: a collection released over the reorder cursor of a collection is
\* rejected (no collections.move, every order key unchanged) exactly when it
\* is that collection or that collection's below neighbour; every other drop
\* is accepted and calls collections.move once.
C10_CollectionDropRejection ==
    [][(dragging # None /\ treeEvent'.kind = "dropCollection") =>
          LET t == treeEvent'.target
          IN  IF dragging = t \/ dragging = BelowCollection(t)
              THEN /\ treeEvent'.outcome = "rejected"
                   /\ colMoves' = colMoves
                   /\ colIndex' = colIndex
              ELSE /\ treeEvent'.outcome = "move"
                   /\ colMoves' = colMoves + 1
                   /\ \A o \in Cols \ {dragging} : colIndex'[o] = colIndex[o]]_vars

\* C10 witness: a drop was rejected because the dragged collection is the
\* target's below neighbour.
C10_Witness ==
    /\ treeEvent.kind = "dropCollection"
    /\ treeEvent.outcome = "rejected"
    /\ treeEvent.item # treeEvent.target
    /\ treeEvent.item = treeEvent.below

\* C11: while the sidebar shows the starred view, and on entering it, no
\* dragging transition and no active-collection change modifies the expanded
\* flag of any collection.
C11_StarredViewKeepsExpanded ==
    [][search' = "?starred" => expanded' = expanded]_vars

\* C11 witness: in the starred view a collection drag has begun and a
\* collection is still expanded.
C11_Witness ==
    /\ search = "?starred"
    /\ treeEvent.kind = "dragBegin"
    /\ \E c \in Cols : expanded[c]

\* C14: outside the starred view every collection's expanded flag equals
\* (no collection is dragged and the collection is the active one), so at
\* most one collection is expanded.
C14_ExpandedFollowsActive ==
    search # "?starred" =>
        /\ \A c \in Cols :
              expanded[c] <=> (dragging = None /\ c = activeCollectionId)
        /\ Cardinality({c \in Cols : expanded[c]}) <= 1

\* C14 witness: a drag has ended outside the starred view and the active
\* collection is expanded again.
C14_Witness ==
    /\ search # "?starred"
    /\ treeEvent.kind \in {"dragEnd", "dropCollection"}
    /\ activeCollectionId # None
    /\ expanded[activeCollectionId]

\* C15: an accepted collection drop gives the dragged collection a key
\* strictly greater than the target's and strictly less than that of the
\* target's next sibling (when there is one), so that it becomes the target's
\* next sibling; no other key changes, and no two collections ever hold equal
\* keys.
C15_DroppedKeyBetween ==
    /\ [][(treeEvent'.kind = "dropCollection" /\ treeEvent'.outcome = "move") =>
            LET d == dragging
                t == treeEvent'.target
                b == BelowCollection(t)
            IN  /\ KeyLess(colIndex'[t], colIndex'[d])
                /\ b # None => KeyLess(colIndex'[d], colIndex'[b])
                /\ \A o \in Cols \ {d} : colIndex'[o] = colIndex[o]
                /\ \A o \in Cols :
                      ~(/\ KeyLess(colIndex'[t], colIndex'[o])
                        /\ KeyLess(colIndex'[o], colIndex'[d]))]_vars
    /\ [](\A c, o \in Cols : c # o => colIndex[c] # colIndex[o])

\* C15 witness: a second accepted drop has put a collection between the target
\* and its next sibling.
C15_Witness ==
    /\ treeEvent.kind = "dropCollection"
    /\ treeEvent.outcome = "move"
    /\ treeEvent.below # None
    /\ colMoves >= 2
    /\ KeyLess(colIndex[treeEvent.target], colIndex[treeEvent.item])
    /\ KeyLess(colIndex[treeEvent.item], colIndex[treeEvent.below])

-----------------------------------------------------------------------------
(* Claims about the link search, checked under SpecSearch *)

\* C12: a term that looks like an internal address is first looked up as a
\* single document: a hit is returned alone, without a title search; a
\* NotFound falls through to the title search without failing the helper; any
\* other error fails the helper with that error and no title search is made.
\* Any other term goes straight to the title search.
C12_LookupBeforeTitleSearch ==
    /\ linkEvent.kind = "call" =>
          IF Len(linkTerm) > 0 /\ linkTerm[1] = "/"
          THEN linkStage = "lookup" /\ titleSearches = 0
          ELSE linkStage = "titles" /\ titleSearches = 1
    /\ linkEvent.kind = "lookupOk" =>
          /\ linkStage = "done"
          /\ linkOutput = <<LinkEntry(linkEvent.hit)>>
          /\ titleSearches = 0
    /\ linkEvent.kind = "lookupErr" =>
          IF linkEvent.error = "NotFound"
          THEN linkStage = "titles" /\ titleSearches = 1 /\ linkError = None
          ELSE /\ linkStage = "failed"
               /\ linkError = linkEvent.error
               /\ titleSearches = 0
    /\ titleSearches <= 1

\* C12 witness: the lookup of an internal address was not found and the title
\* search that followed has returned a list.
C12_Witness ==
    /\ isInternalUrl(linkTerm)
    /\ linkStage = "done"
    /\ titleSearches = 1
    /\ Len(linkOutput) > 1

\* C13: the list returned after a title search is the returned list with the
\* entries whose normalized title starts with the normalized term first, then
\* the others, each group in the order the title search gave.
C13_StablePrefixPartition ==
    linkEvent.kind = "titlesOk" =>
        LET Starts(e) == startsWith(toLowerCase(deburr(e.title)),
                                    toLowerCase(deburr(linkTerm)))
            Others(e) == ~Starts(e)
        IN  linkOutput = SelectSeq(Entries(linkResults), Starts)
                             \o SelectSeq(Entries(linkResults), Others)

\* C13 witness: a title search returned three entries, the helper reordered
\* them, and an entry with an accented capital leads the list.
C13_Witness ==
    /\ linkEvent.kind = "titlesOk"
    /\ Len(linkOutput) >= 3
    /\ linkOutput # Entries(linkResults)
    /\ linkOutput[1].title[1] = "Á"

====
